---- MODULE Spec2Model ----
(***************************************************************************)
(* Workflow orchestration engine of CyberShield's Kali tool integration:   *)
(*   src/slm/cyberlab/kali_tools/orchestrator.py  (KaliToolOrchestrator)   *)
(*   src/slm/cyberlab/kali_tools/tool_handlers.py (the per-tool handlers)  *)
(*   src/slm/cyberlab/kali_tools/tool_manager.py  (KaliToolManager)        *)
(*                                                                         *)
(* One orchestrator object is shared by the executions in ExecIds, which   *)
(* may be called one after the other or interleaved (threads).  A Python   *)
(* dict is a record; a key a dict may lack holds NoKey when it is absent.  *)
(* A Python list that is shared by reference (a step's "options") is       *)
(* stored once, in the step that owns it, and mutated there.               *)
(***************************************************************************)
EXTENDS Integers, Sequences, FiniteSets

\* ------------------------------------------------------------------ bounds
\* Longest step list of a workflow definition or of a custom workflow.
MaxSteps == 2
\* Most calls made on one orchestrator.
MaxCalls == 2

\* ------------------------------------------------------------ value domains
ExecIds == {"x1", "x2"}
WorkflowNames == {"recon", "audit"}
StepNames == {"scan", "probe"}
\* each caller works on a target of its own
TargetOf(e) == IF e = "x1" THEN "10.0.0.5" ELSE "10.0.0.6"
NoKey == "<no key>"

\* tool names the engine dispatches (orchestrator.py:91-102)
DispatchedTools == {"nmap", "nikto", "sqlmap", "hydra", "metasploit"}

\* default_config["tools_paths"] keys (tool_manager.py:19-32)
ConfiguredTools ==
    {"nmap", "metasploit", "wireshark", "burpsuite", "sqlmap", "hydra", "john",
     "aircrack-ng", "nikto", "gobuster", "wpscan", "hashcat"}

\* default_config["tools_paths"][tool] as <<directory, file name>>
DefaultPath(tool) ==
    <<"/usr/bin", IF tool = "metasploit" THEN "msfconsole" ELSE tool>>

\* common_paths (tool_manager.py:50-57), in probe order
common_paths ==
    <<"/usr/bin", "/usr/local/bin", "/opt/kali/bin",
      "C:\\Program Files\\Kali", "C:\\kali", "~/kali">>

\* the files that may exist on the machines considered
FsFiles == {<<"/usr/bin", "nmap">>, <<"/usr/local/bin", "nikto">>}

NoPath == <<>>

\* An option list is a Python list of option tokens.  IntTokens are elements
\* that are not str (YAML reads `- 80` as an int).
StrTokens == {"-sV", "-T4"}
IntTokens == {"80"}

\* step["options"]: absent, a list, or (ill-typed) a scalar string
OptAbsent == [kind |-> "absent", items |-> <<>>]
OptList(items) == [kind |-> "list", items |-> items]
OptStr == [kind |-> "str", items |-> <<>>]

Step(name, tool, options) == [name |-> name, tool |-> tool, options |-> options]

\* The step specifications considered: well-formed steps for three handlers,
\* an undispatched tool, and the malformed shapes (no tool, no name, options
\* that are no list, an option that is no string).
StepSpecs ==
    { Step("scan", "nmap", OptList(<<"-sV">>)),
      Step("probe", "nikto", OptAbsent),
      Step("probe", "whois", OptList(<<>>)),
      Step("scan", NoKey, OptList(<<>>)),
      Step(NoKey, "nmap", OptList(<<>>)),
      Step(NoKey, "whois", OptList(<<>>)),
      Step("probe", "metasploit", OptList(<<>>)),
      Step("scan", "metasploit", OptList(<<"-sV">>)),
      Step("scan", "nikto", OptStr),
      Step("probe", "nmap", OptList(<<"80">>)) }

SeqsUpTo(S, n) == UNION {[1..m -> S] : m \in 0..n}

StepLists == SeqsUpTo(StepSpecs, MaxSteps)

\* the caller's `options` argument: None, or a dict step name -> option list
OptionsNone == [none |-> TRUE, keys |-> {}, items |-> <<>>]
OptionsDict(keys, items) == [none |-> FALSE, keys |-> keys, items |-> items]
OptionArgs ==
    {OptionsNone, OptionsDict({}, <<>>)}
    \cup {OptionsDict({n}, <<"-T4">>) : n \in StepNames}

VARIABLES
    fs,            \* the files that exist
    workflows,     \* self.workflows
    loaded,        \* history: self.workflows as _load_workflows returned it
    inline,        \* the step list the caller builds for custom_workflow
    ncalls,        \* how many calls have been made
    frame,         \* per execution: the call's arguments
    pc,            \* per execution: where it is
    idx,           \* per execution: the 1-based index of the step in the loop
    results,       \* per execution: results["steps"]
    tool_options,  \* per execution: the local tool_options of the running step
    proc,          \* per execution: the command line of the process it waits for
    ret,           \* per execution: the value returned to the caller
    raised,        \* history, per execution: the exception its loop raised
    calls,         \* history, per execution: the handler calls made
    returns,       \* history, per execution: how many handler calls have ended
    spawned,       \* history, per execution: the processes spawned, in order,
                   \*   each with its exit status and standard output
    manager,       \* self.manager.tool_paths, the registry built at construction
    run,           \* the execute_tool call made on a KaliToolManager of its own
    parse,         \* a raw output and the payload a handler parses from it
    report,        \* what generate_report was given and the report it returned
    executor       \* a CommandExecutor: its security context and the call it runs

vars == <<fs, workflows, loaded, inline, ncalls, frame, pc, idx, results, tool_options, proc,
          ret, raised, calls, returns, spawned, manager, run, parse, report, executor>>

\* ---------------------------------------------------------- Tool Registry
\* FindToolPath with the last directory that holds the tool winning
FindToolPath_LastHit(files, tool) ==
    IF DefaultPath(tool) \in files THEN DefaultPath(tool)
    ELSE LET hits == {j \in 1..Len(common_paths) : <<common_paths[j], tool>> \in files}
         IN  IF hits = {} THEN NoPath
             ELSE <<common_paths[CHOOSE j \in hits : \A h \in hits : j >= h], tool>>

\* KaliToolManager._find_tool_paths, for one tool: the default path if it
\* exists, else the first of common_paths that holds a file named as the tool.
FindToolPath(files, tool) ==
    IF DefaultPath(tool) \in files THEN DefaultPath(tool)
    ELSE LET hits == {j \in 1..Len(common_paths) : <<common_paths[j], tool>> \in files}
         IN  IF hits = {} THEN NoPath
             ELSE <<common_paths[CHOOSE j \in hits : \A h \in hits : j <= h], tool>>

\* KaliToolManager._find_tool_paths: a tool that was not found maps to NoPath
find_tool_paths(files) == [tool \in ConfiguredTools |-> FindToolPath(files, tool)]

\* KaliToolManager.is_tool_available
is_tool_available(tool_paths, tool_name) ==
    tool_name \in DOMAIN tool_paths /\ tool_paths[tool_name] # NoPath

\* ------------------------------------------------------------ Tool Runner
RawOutputs == {"22/tcp open ssh"}
\* process.returncode: zero, or not (check=True makes every other value a
\* CalledProcessError); Running while the process has not exited
ExitStatuses == {0, 1}
Running == 255
NoCommand == [path |-> NoPath, args |-> <<>>]
Command(path, arguments) == [path |-> path, args |-> arguments]
\* the value of a key a result dict lacks
NoParsed == [target |-> "", collections |-> <<>>]

\* A result dict: `keys` are the keys it holds beside "success".
Result(success, keys, error, output, command, parsed) ==
    [success |-> success, keys |-> keys, error |-> error, output |-> output,
     command |-> command, parsed |-> parsed]

\* tool_manager.py:81-84
ResNotFound(tool_name) ==
    Result(FALSE, {"error"}, <<"Tool", tool_name, "not found">>, "", NoCommand, NoParsed)
\* tool_manager.py:95-99
ResCompleted(cmd, out) ==
    Result(TRUE, {"output", "command"}, <<>>, out, cmd, NoParsed)
\* ResCalledProcessError without the captured output
ResCalledProcessError_NoOutput(cmd, out) ==
    Result(FALSE, {"error", "command"}, <<"CalledProcessError">>, "", cmd, NoParsed)
\* tool_manager.py:101-107
ResCalledProcessError(cmd, out) ==
    Result(FALSE, {"error", "output", "command"}, <<"CalledProcessError">>, out, cmd, NoParsed)
\* ResSpawnFault without the command line
ResSpawnFault_NoCommand(cmd) ==
    Result(FALSE, {"error"}, <<"OSError">>, "", NoCommand, NoParsed)
\* tool_manager.py:109-114
ResSpawnFault(cmd) ==
    Result(FALSE, {"error", "command"}, <<"OSError">>, "", cmd, NoParsed)
\* orchestrator.py:104-107
ResUnknownTool(tool) ==
    Result(FALSE, {"error"}, <<"Unknown tool:", tool>>, "", NoCommand, NoParsed)

\* ExecuteToolStart without the early return of lines 80-84
ExecuteToolStart_NoFailFast(tool_paths, tool_name, arguments) ==
    [outcome |-> "spawn",
     cmd |-> Command(IF tool_name \in DOMAIN tool_paths THEN tool_paths[tool_name]
                     ELSE NoPath, arguments)]

\* KaliToolManager.execute_tool up to subprocess.run (tool_manager.py:80-93).
\*   "notfound": the early return of lines 80-84;
\*   "raise":    subprocess.run refuses an argument that is no string, and the
\*               handler of line 109 raises again at " ".join(cmd), line 113;
\*   "spawn":    subprocess.run starts the process (or the spawn itself fails).
ExecuteToolStart(tool_paths, tool_name, arguments) ==
    IF ~is_tool_available(tool_paths, tool_name)
      THEN [outcome |-> "notfound", cmd |-> NoCommand]
    ELSE IF \E j \in 1..Len(arguments) : arguments[j] \in IntTokens
      THEN [outcome |-> "raise", cmd |-> Command(tool_paths[tool_name], arguments)]
    ELSE [outcome |-> "spawn", cmd |-> Command(tool_paths[tool_name], arguments)]

\* KaliToolManager.execute_tool once the process has exited (lines 95-107)
ExecuteToolEnd(cmd, status, out) ==
    IF status = 0 THEN ResCompleted(cmd, out) ELSE ResCalledProcessError(cmd, out)

\* ---------------------------------------------------------- Output Parsers
\* A raw output is the sequence of its characters.  The character classes of
\* the patterns in tool_handlers.py, over the characters the outputs
\* considered are written in:
Digits == {"0", "1", "2", "3", "4", "5", "6", "7", "8", "9"}
Letters ==
    {"a", "b", "c", "d", "e", "f", "g", "h", "i", "j", "k", "l", "m", "n",
     "o", "p", "q", "r", "s", "t", "u", "v", "w", "x", "y", "z", "A", "B",
     "C", "D", "E", "F", "G", "H", "I", "J", "K", "L", "M", "N", "O", "P",
     "Q", "R", "S", "T", "U", "V", "W", "X", "Y", "Z"}
\* \s
Spaces == {" ", "\t", "\n"}
\* \w
WordChars == Digits \cup Letters \cup {"_"}
\* [\w.-]
HostChars == WordChars \cup {".", "-"}
\* [\d.]
IpChars == Digits \cup {"."}
Punct == {"/", ":", "+", "@", ".", "-", "(", ")", "[", "]", "!"}
\* . (every character but the newline)
LineChars == (WordChars \cup Spaces \cup Punct) \ {"\n"}

\* the literal parts of the patterns
LitReport ==
    <<"N", "m", "a", "p", " ", "s", "c", "a", "n", " ", "r", "e", "p", "o",
      "r", "t", " ", "f", "o", "r", " ">>
LitPlus == <<"+", " ">>
LitScheme == <<":", "/", "/">>
LitSession ==
    <<"S", "e", "s", "s", "i", "o", "n", " ">>
LitCreated ==
    <<" ", "c", "r", "e", "a", "t", "e", "d">>
LitInjection ==
    <<"s", "q", "l", "m", "a", "p", " ", "i", "d", "e", "n", "t", "i", "f",
      "i", "e", "d", " ", "t", "h", "e", " ", "f", "o", "l", "l", "o", "w",
      "i", "n", "g", " ", "i", "n", "j", "e", "c", "t", "i", "o", "n", " ",
      "p", "o", "i", "n", "t">>

\* a group that took no part in the match (Python's None)
NoGroup == <<"None">>

\* int(port): the decimal value of a string of digits
DigitValue(c) ==
    CASE c = "0" -> 0 [] c = "1" -> 1 [] c = "2" -> 2 [] c = "3" -> 3 [] c = "4" -> 4
      [] c = "5" -> 5 [] c = "6" -> 6 [] c = "7" -> 7 [] c = "8" -> 8 [] c = "9" -> 9

\* ToInt that keeps the last digit only
ToInt_LastDigit(ds) == IF ds = <<>> THEN 0 ELSE DigitValue(ds[Len(ds)])

RECURSIVE ToInt(_)
ToInt(ds) ==
    IF ds = <<>> THEN 0
    ELSE 10 * ToInt(SubSeq(ds, 1, Len(ds) - 1)) + DigitValue(ds[Len(ds)])

\* int(port) of CPython since 3.11 (and the security releases of 3.7 to
\* 3.10): a string of more than sys.get_int_max_str_digits() digits is not
\* converted, int raises ValueError
int_max_str_digits == 4300
\* stands for the ValueError raised in place of a value (no int of digits is negative)
ValueError == -1
ParseInt(ds) == IF Len(ds) > int_max_str_digits THEN ValueError ELSE ToInt(ds)

\* T[i..j-1]
Slice(T, i, j) == SubSeq(T, i, j - 1)

\* where the longest run of characters of S that starts at i ends (the index
\* after its last character): what a greedy `[S]*` takes at i
RunEnd(T, i, S) ==
    IF i > Len(T) THEN i
    ELSE CHOOSE j \in i..(Len(T) + 1) :
             /\ j = Len(T) + 1 \/ T[j] \notin S
             /\ \A k \in i..(j - 1) : T[k] \in S

\* the literal L stands at i
LitAt(T, i, L) ==
    /\ i + Len(L) - 1 <= Len(T)
    /\ \A k \in 1..Len(L) : T[i + k - 1] = L[k]

\* the result of trying a pattern at one position
NoMatch == [ok |-> FALSE, at |-> 0, end |-> 0, finding |-> <<>>]
Match(at, end, finding) == [ok |-> TRUE, at |-> at, end |-> end, finding |-> finding]

\* port_pattern  (\d+)/(\w+)\s+(\w+)\s+(\w+)(?:\s+(.+))?  tried at i
\* (tool_handlers.py:41-50).  Every `+` but the last \s+ can only take its
\* longest run; the last \s+ gives characters back until `.+` finds one that
\* is no newline, and the group is left out when it finds none.
PortMatch(T, i) ==
    LET d == RunEnd(T, i, Digits)
        p == RunEnd(T, d + 1, WordChars)
        s1 == RunEnd(T, p, Spaces)
        st == RunEnd(T, s1, WordChars)
        s2 == RunEnd(T, st, Spaces)
        sv == RunEnd(T, s2, WordChars)
        s3 == RunEnd(T, sv, Spaces)
        J == {j \in (sv + 1)..s3 : j <= Len(T) /\ T[j] # "\n"}
        j == CHOOSE x \in J : \A y \in J : y <= x
        finding(info) ==
            [port |-> ParseInt(Slice(T, i, d)), protocol |-> Slice(T, d + 1, p),
             state |-> Slice(T, s1, st), service |-> Slice(T, s2, sv), info |-> info]
    IN  IF ~(/\ d > i /\ d <= Len(T) /\ T[d] = "/"
             /\ p > d + 1 /\ s1 > p /\ st > s1 /\ s2 > st /\ sv > s2)
          THEN NoMatch
        ELSE IF J = {} THEN Match(i, sv, finding(NoGroup))
        ELSE Match(i, RunEnd(T, j, LineChars),
                   finding(Slice(T, j, RunEnd(T, j, LineChars))))

\* host_pattern  Nmap scan report for ([\w.-]+)(?:\s+\(([\d.]+)\))?  tried
\* at i (tool_handlers.py:32-38); "ip": ip or hostname
HostMatch(T, i) ==
    LET a == i + Len(LitReport)
        h == RunEnd(T, a, HostChars)
        s == RunEnd(T, h, Spaces)
        q == RunEnd(T, s + 1, IpChars)
        withIp == /\ s > h /\ s <= Len(T) /\ T[s] = "("
                  /\ q > s + 1 /\ q <= Len(T) /\ T[q] = ")"
    IN  IF ~(LitAt(T, i, LitReport) /\ h > a) THEN NoMatch
        ELSE IF withIp
          THEN Match(i, q + 1, [hostname |-> Slice(T, a, h), ip |-> Slice(T, s + 1, q)])
        ELSE Match(i, h, [hostname |-> Slice(T, a, h), ip |-> Slice(T, a, h)])

\* vuln_pattern  \+ (.*?):\s+(.*)  tried at i (tool_handlers.py:115-121): the
\* lazy group ends at the first colon of the line that a space follows
NiktoMatch(T, i) ==
    LET a == i + 2
        e == RunEnd(T, a, LineChars)
        C == {c \in a..(e - 1) : T[c] = ":" /\ c + 1 <= Len(T) /\ T[c + 1] \in Spaces}
        c == CHOOSE x \in C : \A y \in C : x <= y
        s == RunEnd(T, c + 1, Spaces)
    IN  IF ~(LitAt(T, i, LitPlus) /\ C # {}) THEN NoMatch
        ELSE Match(i, RunEnd(T, s, LineChars),
                   [id |-> Slice(T, a, c),
                    description |-> Slice(T, s, RunEnd(T, s, LineChars))])

\* cred_pattern  (\w+)://(\w+):(\w+)@([\w.-]+)  tried at i
\* (tool_handlers.py:190-198)
HydraMatch(T, i) ==
    LET w1 == RunEnd(T, i, WordChars)
        w2 == RunEnd(T, w1 + 3, WordChars)
        w3 == RunEnd(T, w2 + 1, WordChars)
        w4 == RunEnd(T, w3 + 1, HostChars)
    IN  IF ~(/\ w1 > i /\ LitAt(T, w1, LitScheme)
             /\ w2 > w1 + 3 /\ w2 <= Len(T) /\ T[w2] = ":"
             /\ w3 > w2 + 1 /\ w3 <= Len(T) /\ T[w3] = "@"
             /\ w4 > w3 + 1)
          THEN NoMatch
        ELSE Match(i, w4,
                   [protocol |-> Slice(T, i, w1), username |-> Slice(T, w1 + 3, w2),
                    password |-> Slice(T, w2 + 1, w3), host |-> Slice(T, w3 + 1, w4)])

\* session_pattern  Session (\d+) created  tried at i (tool_handlers.py:238-244)
SessionMatch(T, i) ==
    LET a == i + Len(LitSession)
        d == RunEnd(T, a, Digits)
    IN  IF ~(LitAt(T, i, LitSession) /\ d > a /\ LitAt(T, d, LitCreated)) THEN NoMatch
        ELSE Match(i, d + Len(LitCreated), [id |-> Slice(T, a, d), type |-> "shell"])

\* one of the patterns, tried at i
TryAt(pattern, T, i) ==
    CASE pattern = "port_pattern" -> PortMatch(T, i)
      [] pattern = "host_pattern" -> HostMatch(T, i)
      [] pattern = "vuln_pattern" -> NiktoMatch(T, i)
      [] pattern = "cred_pattern" -> HydraMatch(T, i)
      [] pattern = "session_pattern" -> SessionMatch(T, i)

\* re.finditer(pattern, T) from pos on: the leftmost match at or after pos is
\* taken, and the search goes on where it ended.
RECURSIVE Scan(_, _, _)
Scan(pattern, T, pos) ==
    LET first == CHOOSE i \in pos..Len(T) :
                     /\ TryAt(pattern, T, i).ok
                     /\ \A h \in pos..(i - 1) : ~TryAt(pattern, T, h).ok
    IN  IF \A i \in pos..Len(T) : ~TryAt(pattern, T, i).ok THEN <<>>
        ELSE <<TryAt(pattern, T, first)>> \o Scan(pattern, T, TryAt(pattern, T, first).end)

port_matches(T) == Scan("port_pattern", T, 1)
host_matches(T) == Scan("host_pattern", T, 1)
nikto_matches(T) == Scan("vuln_pattern", T, 1)
hydra_matches(T) == Scan("cred_pattern", T, 1)
session_matches(T) == Scan("session_pattern", T, 1)

\* the findings of a list of matches, in its order (the .append of each loop)
Findings(matches) == [k \in 1..Len(matches) |-> matches[k].finding]

\* re.search(vuln_pattern, output) of sqlmap_scan (tool_handlers.py:152-157)
InjectionFound(T) == \E i \in 1..Len(T) : LitAt(T, i, LitInjection)

\* The `parsed` dict each handler builds from the output of its tool:
\* `collections` maps each key that holds a list to the list.
Parsed(target, collections) == [target |-> target, collections |-> collections]

\* InfoGathering.nmap_scan, lines 21-50
nmap_parsed(target, output) ==
    Parsed(target, [hosts |-> Findings(host_matches(output)),
                    ports |-> Findings(port_matches(output)),
                    services |-> <<>>])
\* WebAppAnalysis.nikto_scan, lines 105-121
nikto_parsed(target, output) ==
    Parsed(target, [vulnerabilities |-> Findings(nikto_matches(output)),
                    information |-> <<>>])
\* WebAppAnalysis.sqlmap_scan, lines 141-157
sqlmap_parsed(target, output) ==
    Parsed(target,
           [vulnerabilities |->
                IF InjectionFound(output)
                  THEN <<[type |-> "SQL Injection",
                          details |-> "SQL Injection vulnerability found"]>>
                  ELSE <<>>,
            databases |-> <<>>, tables |-> <<>>])
\* PasswordAttacks.hydra_attack, lines 180-198
hydra_parsed(target, output) ==
    Parsed(target, [credentials |-> Findings(hydra_matches(output))])
\* ExploitationTools.metasploit_exploit, lines 228-244
metasploit_parsed(target, output) ==
    Parsed(target, [sessions |-> Findings(session_matches(output))])

\* the parsing stage of the handler of `tool` raises: the ValueError of
\* int(port) in the loop of nmap_scan (tool_handlers.py:42-45) leaves the handler
ParseRaises(tool, output) ==
    /\ tool = "nmap"
    /\ \E k \in 1..Len(port_matches(output)) :
          port_matches(output)[k].finding.port = ValueError

\* the parsing stage of the handler of `tool`, when it does not raise
ParseOutput(tool, target, output) ==
    CASE tool = "nmap" -> nmap_parsed(target, output)
      [] tool = "nikto" -> nikto_parsed(target, output)
      [] tool = "sqlmap" -> sqlmap_parsed(target, output)
      [] tool = "hydra" -> hydra_parsed(target, output)
      [] OTHER -> metasploit_parsed(target, output)

\* the characters of the outputs the processes of the engine write
OutputText ==
    [out \in {"22/tcp open ssh", ""} |->
        IF out = "" THEN <<>>
        ELSE <<"2", "2", "/", "t", "c", "p", " ", "o", "p", "e", "n", " ", "s",
               "s", "h">>]

\* ---------------------------------------------------------- Tool Handlers
\* HandlerTool with every handler asking for the key the registry is configured with
HandlerTool_RegistryKey(tool) == tool

\* the registry key each handler asks execute_tool for
HandlerTool(tool) == IF tool = "metasploit" THEN "msfconsole" ELSE tool

\* step.get("service", "http-post-form"); no step considered has the key
DefaultService == "http-post-form"

\* the argument list a handler builds (tool_handlers.py:15, 99, 135, 174, 217-220)
HandlerArguments(tool, target, items) ==
    CASE tool = "nmap" -> <<target>> \o items
      [] tool = "nikto" -> <<"-h", target>> \o items
      [] tool = "sqlmap" -> <<"-u", target>> \o items
      [] tool = "hydra" -> <<"-s", DefaultService, target>> \o items
      [] OTHER -> <<"-q", "-x", "use ;">> \o items \o <<"exploit;">>

\* the handler after execute_tool returned: a failure is passed through
\* (`if not result["success"]: return result`), a success is parsed
\* (no output of OutputText makes the parsing stage raise)
HandlerFinish(tool, target, result) ==
    IF ~result.success THEN result
    ELSE Result(TRUE, {"raw_output", "parsed"}, <<>>, result.output, NoCommand,
                ParseOutput(tool, target, OutputText[result.output]))

\* -------------------------------------------------------- Workflow Engine
\* dict(tool_options) succeeds only on a list of pairs; a two-character
\* string is a pair of characters
PairTokens == {"-p"}

\* orchestrator.py:85-89.  `fault` is the exception raised (<<>>: none),
\* `extend` whether tool_options.extend(options[step["name"]]) runs.
MergeOptions(step, options) ==
    IF step.tool = NoKey
      THEN [fault |-> <<"KeyError", "tool">>, extend |-> FALSE]
    ELSE IF options.none \/ options.keys = {}
      THEN [fault |-> <<>>, extend |-> FALSE]
    ELSE IF step.name = NoKey
      THEN [fault |-> <<"KeyError", "name">>, extend |-> FALSE]
    ELSE IF step.name \notin options.keys
      THEN [fault |-> <<>>, extend |-> FALSE]
    ELSE IF step.options.kind = "str"
      THEN [fault |-> <<"AttributeError", "extend">>, extend |-> FALSE]
    ELSE [fault |-> <<>>, extend |-> TRUE]

\* Dispatch with tool names outside the five handed to the tool runner
Dispatch_UnknownToRunner(tool, opts) ==
    IF tool = "metasploit" /\ (opts.kind # "list"
           \/ \E j \in 1..Len(opts.items) : opts.items[j] \notin PairTokens)
      THEN [to |-> "raise", fault |-> <<"ValueError", "dict">>, inHandler |-> FALSE]
    ELSE IF tool # "metasploit" /\ opts.kind # "list"
      THEN [to |-> "raise", fault |-> <<"TypeError", "concatenate">>, inHandler |-> TRUE]
    ELSE [to |-> "call", fault |-> <<>>, inHandler |-> TRUE]

\* Dispatch with the option list of a metasploit step handed over as it is
Dispatch_NoConversion(tool, opts) ==
    IF tool \notin DispatchedTools THEN [to |-> "unknown", fault |-> <<>>, inHandler |-> FALSE]
    ELSE IF opts.kind # "list"
      THEN [to |-> "raise", fault |-> <<"TypeError", "concatenate">>, inHandler |-> TRUE]
    ELSE [to |-> "call", fault |-> <<>>, inHandler |-> TRUE]

\* orchestrator.py:91-107 and the handler's first lines: what the dispatch on
\* `tool` does with the option value `opts` it holds.
\*   "unknown": lines 104-107; "raise": dict(tool_options) or
\*   [target] + options raises; "call": execute_tool is called.
Dispatch(tool, opts) ==
    IF tool \notin DispatchedTools THEN [to |-> "unknown", fault |-> <<>>, inHandler |-> FALSE]
    ELSE IF tool = "metasploit"
      THEN IF opts.kind # "list"
             THEN [to |-> "raise", fault |-> <<"ValueError", "dict">>, inHandler |-> FALSE]
           ELSE IF \E j \in 1..Len(opts.items) : opts.items[j] \notin PairTokens
             THEN [to |-> "raise", fault |-> <<"ValueError", "dict">>, inHandler |-> FALSE]
           ELSE [to |-> "call", fault |-> <<>>, inHandler |-> TRUE]
    ELSE IF opts.kind # "list"
      THEN [to |-> "raise", fault |-> <<"TypeError", "concatenate">>, inHandler |-> TRUE]
    ELSE [to |-> "call", fault |-> <<>>, inHandler |-> TRUE]

\* ResultName with the placeholder given to every step
ResultName_AlwaysPlaceholder(kind, step) == "unnamed_step"

\* the name a StepResult carries (orchestrator.py:63 and 125)
ResultName(kind, step) ==
    IF kind = "custom_workflow" /\ step.name = NoKey THEN "unnamed_step" ELSE step.name

\* AfterAppend with a loop that stops at the first step reporting failure
AfterAppend_HaltOnFailure(k, n, step_result) ==
    IF k = n \/ ~step_result.success THEN "returned" ELSE "step"

\* AfterAppend with a loop that leaves out the last step
AfterAppend_StopEarly(k, n, step_result) ==
    IF k + 1 >= n THEN "returned" ELSE "step"

\* where the loop of lines 60-66 / 122-128 goes once step k of n is appended
AfterAppend(k, n, step_result) == IF k = n THEN "returned" ELSE "step"

\* NextIndex with a step that reported failure executed again
NextIndex_RetryFailed(k, step_result) == IF step_result.success THEN k + 1 ELSE k

\* the for loop of lines 60 / 122 goes on to the next step
NextIndex(k, step_result) == k + 1

\* WorkflowKnown without the lookup
WorkflowKnown_NoLookup(wfs, workflow_name) == TRUE

\* `workflow_name not in self.workflows` is false (orchestrator.py:45)
WorkflowKnown(wfs, workflow_name) == wfs[workflow_name].present

\* `except Exception` (orchestrator.py:73, 135) catches the subclasses of
\* Exception; every exception class named in this model is one
ExceptionClasses ==
    {"KeyError", "AttributeError", "TypeError", "ValueError", "OSError"}
\* Caught with `except KeyError` in place of `except Exception`
Caught_KeyErrorOnly(fault) == fault[1] = "KeyError"

Caught(fault) == fault[1] \in ExceptionClasses

\* the values the engine returns
RetNone == [success |-> FALSE, keys |-> {}, error |-> <<>>]
RetNotFound(workflow_name) ==
    [success |-> FALSE, keys |-> {"error"}, error |-> <<"Workflow", workflow_name, "not found">>]
RetSuccess == [success |-> TRUE, keys |-> {"results"}, error |-> <<>>]
\* RetPartial without the results gathered so far
RetPartial_Discard(fault) ==
    [success |-> FALSE, keys |-> {"error"}, error |-> fault]

\* RetPartial with the value of a completed execution
RetPartial_AsCompleted(fault) == RetSuccess

RetPartial(fault) ==
    [success |-> FALSE, keys |-> {"error", "partial_results"}, error |-> fault]

\* ------------------------------------------------------------ the machine
\* no result dict yet
NoResult == Result(FALSE, {}, <<>>, "", NoCommand, NoParsed)
\* no execute_tool call has been made on a manager of its own.  `attempts`
\* counts the calls of subprocess.run, `processes` the processes started.
NoRun ==
    [phase |-> "idle", tool_name |-> "", arguments |-> <<>>, cmd |-> NoCommand,
     status |-> Running, stdout |-> "", result |-> NoResult,
     attempts |-> 0, processes |-> 0, fault |-> <<>>]
\* no raw output is being parsed
NoParse == [phase |-> "none", tool |-> "", output |-> <<>>, parsed |-> NoParsed]
\* generate_report has not been called
NoReport == [phase |-> "none", given |-> <<>>, report |-> <<>>]
\* no CommandExecutor has been constructed
NoExecutor ==
    [phase |-> "none", windows |-> FALSE, security_level |-> "strict",
     allowed_commands |-> {}, command |-> <<>>, formatted |-> <<>>,
     validated |-> FALSE, allowed |-> FALSE, spawned |-> <<>>,
     result |-> <<>>, raised |-> <<>>]

NoFrame ==
    [kind |-> "none", workflow_name |-> "", target |-> "", options |-> OptionsNone,
     steps |-> <<>>, given |-> <<>>]
LocalOptions == [ref |-> "local", value |-> OptList(<<>>)]

NotLoaded == [present |-> FALSE, steps |-> <<>>]

\* KaliToolOrchestrator._load_workflows: {} when workflows.yaml is absent,
\* else the document: here one workflow, "recon", with the steps L
LoadWorkflows(exists, L) ==
    [n \in WorkflowNames |->
        IF exists /\ n = "recon" THEN [present |-> TRUE, steps |-> L] ELSE NotLoaded]

Init ==
    /\ fs \in SUBSET FsFiles
    /\ inline \in StepLists
    /\ \E exists \in BOOLEAN : workflows = LoadWorkflows(exists, inline)
    /\ loaded = workflows
    /\ ncalls = 0
    /\ frame = [e \in ExecIds |-> NoFrame]
    /\ pc = [e \in ExecIds |-> "idle"]
    /\ idx = [e \in ExecIds |-> 0]
    /\ results = [e \in ExecIds |-> <<>>]
    /\ tool_options = [e \in ExecIds |-> LocalOptions]
    /\ proc = [e \in ExecIds |-> NoCommand]
    /\ ret = [e \in ExecIds |-> RetNone]
    /\ raised = [e \in ExecIds |-> <<>>]
    /\ calls = [e \in ExecIds |-> <<>>]
    /\ returns = [e \in ExecIds |-> 0]
    /\ spawned = [e \in ExecIds |-> <<>>]
    /\ manager = find_tool_paths(fs)
    /\ run = NoRun
    /\ parse = NoParse
    /\ report = NoReport
    /\ executor = NoExecutor

\* the step list execution e iterates over: workflow["steps"], or `steps`
Steps(e) ==
    IF frame[e].kind = "execute_workflow"
      THEN workflows[frame[e].workflow_name].steps
      ELSE frame[e].steps

CurrentStep(e) == Steps(e)[idx[e]]

\* the list tool_options refers to, as it is now
CurrentOptions(e) ==
    IF tool_options[e].ref = "step" THEN CurrentStep(e).options
    ELSE tool_options[e].value

\* an exception is raised inside the try block: the except clause of lines
\* 73-78 / 135-140 returns, or the exception leaves the call
Raise(e, fault) ==
    /\ raised' = [raised EXCEPT ![e] = fault]
    /\ IF Caught(fault)
         THEN /\ pc' = [pc EXCEPT ![e] = "returned"]
              /\ ret' = [ret EXCEPT ![e] = RetPartial(fault)]
         ELSE /\ pc' = [pc EXCEPT ![e] = "propagated"]
              /\ ret' = ret
    /\ UNCHANGED <<idx, results>>

\* lines 62-71 / 124-133: append the StepResult, then go on or return
AppendResult(e, step_result) ==
    LET step == CurrentStep(e)
        n == Len(Steps(e))
    IN  IF frame[e].kind = "execute_workflow" /\ step.name = NoKey
          THEN Raise(e, <<"KeyError", "name">>)
          ELSE /\ raised' = raised
               /\ results' = [results EXCEPT ![e] =
                     Append(@, [name |-> ResultName(frame[e].kind, step),
                                tool |-> step.tool,
                                result |-> step_result])]
               /\ IF AfterAppend(idx[e], n, step_result) = "returned"
                    THEN /\ pc' = [pc EXCEPT ![e] = "returned"]
                         /\ ret' = [ret EXCEPT ![e] = RetSuccess]
                         /\ idx' = idx
                    ELSE /\ pc' = [pc EXCEPT ![e] = "step"]
                         /\ idx' = [idx EXCEPT ![e] = NextIndex(@, step_result)]
                         /\ ret' = ret

\* a call begins: the caller has taken the value the last one returned
BeginCall(e) ==
    /\ pc[e] \in {"idle", "returned"}
    /\ ncalls < MaxCalls
    /\ ncalls' = ncalls + 1
    /\ raised' = [raised EXCEPT ![e] = <<>>]
    /\ calls' = [calls EXCEPT ![e] = <<>>]
    /\ returns' = [returns EXCEPT ![e] = 0]
    /\ spawned' = [spawned EXCEPT ![e] = <<>>]

\* the loop is entered with the list `steps`
EnterLoop(e, steps) ==
    /\ results' = [results EXCEPT ![e] = <<>>]
    /\ IF steps = <<>>
         THEN /\ pc' = [pc EXCEPT ![e] = "returned"]
              /\ ret' = [ret EXCEPT ![e] = RetSuccess]
              /\ idx' = idx
         ELSE /\ pc' = [pc EXCEPT ![e] = "step"]
              /\ idx' = [idx EXCEPT ![e] = 1]
              /\ ret' = ret

\* KaliToolOrchestrator.execute_workflow is called (lines 45-58)
ExecuteWorkflow(e) ==
    /\ BeginCall(e)
    /\ \E workflow_name \in WorkflowNames, target \in {TargetOf(e)}, options \in OptionArgs :
         /\ frame' = [frame EXCEPT ![e] =
                [kind |-> "execute_workflow", workflow_name |-> workflow_name,
                 target |-> target, options |-> options, steps |-> <<>>,
                 given |-> workflows[workflow_name].steps]]
         /\ IF ~WorkflowKnown(workflows, workflow_name)
              THEN /\ pc' = [pc EXCEPT ![e] = "returned"]
                   /\ ret' = [ret EXCEPT ![e] = RetNotFound(workflow_name)]
                   /\ results' = [results EXCEPT ![e] = <<>>]
                   /\ idx' = idx
              ELSE EnterLoop(e, workflows[workflow_name].steps)
    /\ UNCHANGED <<fs, workflows, loaded, inline, tool_options, proc, manager, run, parse, report, executor>>

\* KaliToolOrchestrator.custom_workflow is called (lines 114-119)
CustomWorkflow(e) ==
    /\ BeginCall(e)
    /\ \E steps \in {inline}, target \in {TargetOf(e)}, options \in OptionArgs :
         /\ frame' = [frame EXCEPT ![e] =
                [kind |-> "custom_workflow", workflow_name |-> "custom",
                 target |-> target, options |-> options, steps |-> steps,
                 given |-> steps]]
         /\ EnterLoop(e, steps)
    /\ UNCHANGED <<fs, workflows, loaded, inline, tool_options, proc, manager, run, parse, report, executor>>

\* KaliToolOrchestrator._execute_workflow_step, lines 85-89
StepMerge(e) ==
    /\ pc[e] = "step"
    /\ LET step == CurrentStep(e)
           options == frame[e].options
           m == MergeOptions(step, options)
       IN  IF m.fault # <<>>
             THEN /\ Raise(e, m.fault)
                  /\ UNCHANGED <<workflows, frame, tool_options>>
             ELSE /\ pc' = [pc EXCEPT ![e] = "dispatch"]
                  /\ UNCHANGED <<idx, results, ret, raised>>
                  /\ IF step.options.kind = "absent"
                       THEN /\ tool_options' = [tool_options EXCEPT ![e] =
                                  [ref |-> "local",
                                   value |-> OptList(IF m.extend THEN options.items ELSE <<>>)]]
                            /\ UNCHANGED <<workflows, frame>>
                       ELSE /\ tool_options' = [tool_options EXCEPT ![e] =
                                  [ref |-> "step", value |-> OptList(<<>>)]]
                            /\ IF ~m.extend
                                 THEN UNCHANGED <<workflows, frame>>
                                 ELSE IF frame[e].kind = "execute_workflow"
                                   THEN /\ workflows' = [workflows EXCEPT
                                              ![frame[e].workflow_name].steps[idx[e]].options.items =
                                                  @ \o options.items]
                                        /\ frame' = frame
                                   ELSE /\ frame' = [frame EXCEPT
                                              ![e].steps[idx[e]].options.items = @ \o options.items]
                                        /\ workflows' = workflows
    /\ UNCHANGED <<fs, loaded, inline, ncalls, proc, calls, returns, spawned, manager, run, parse, report, executor>>

\* a handler call, as the history keeps it: `runs` counts the execute_tool
\* calls it made, `attempts` the subprocess.run calls those made
HandlerCall(e, opts, runs, attempts) ==
    [k |-> idx[e], tool |-> CurrentStep(e).tool, target |-> frame[e].target,
     options |-> opts, runs |-> runs, attempts |-> attempts]

\* KaliToolOrchestrator._execute_workflow_step, lines 91-107, and the handler
\* it calls up to the point where execute_tool returns or waits for the process
StepDispatch(e) ==
    /\ pc[e] = "dispatch"
    /\ LET step == CurrentStep(e)
           opts == CurrentOptions(e)
           d == Dispatch(step.tool, opts)
           arguments == HandlerArguments(step.tool, frame[e].target, opts.items)
           t == ExecuteToolStart(find_tool_paths(fs), HandlerTool(step.tool), arguments)
       IN  CASE d.to = "unknown" ->
                  /\ AppendResult(e, ResUnknownTool(step.tool))
                  /\ UNCHANGED <<proc, calls, returns, spawned>>
             [] d.to = "raise" ->
                  /\ Raise(e, d.fault)
                  /\ calls' = [calls EXCEPT ![e] =
                        IF d.inHandler THEN Append(@, HandlerCall(e, opts, 0, 0)) ELSE @]
                  /\ returns' = [returns EXCEPT ![e] = IF d.inHandler THEN @ + 1 ELSE @]
                  /\ UNCHANGED <<proc, spawned>>
             [] d.to = "call" /\ t.outcome = "notfound" ->
                  /\ AppendResult(e, ResNotFound(HandlerTool(step.tool)))
                  /\ calls' = [calls EXCEPT ![e] = Append(@, HandlerCall(e, opts, 1, 0))]
                  /\ returns' = [returns EXCEPT ![e] = @ + 1]
                  /\ UNCHANGED <<proc, spawned>>
             [] d.to = "call" /\ t.outcome = "raise" ->
                  /\ Raise(e, <<"TypeError", "join">>)
                  /\ calls' = [calls EXCEPT ![e] = Append(@, HandlerCall(e, opts, 1, 1))]
                  /\ returns' = [returns EXCEPT ![e] = @ + 1]
                  /\ UNCHANGED <<proc, spawned>>
             [] d.to = "call" /\ t.outcome = "spawn" ->
                  /\ calls' = [calls EXCEPT ![e] = Append(@, HandlerCall(e, opts, 1, 1))]
                  /\ \E started \in BOOLEAN :
                       IF started
                         THEN /\ pc' = [pc EXCEPT ![e] = "wait"]
                              /\ proc' = [proc EXCEPT ![e] = t.cmd]
                              /\ spawned' = [spawned EXCEPT ![e] =
                                    Append(@, [k |-> idx[e], cmd |-> t.cmd,
                                               status |-> Running, out |-> ""])]
                              /\ UNCHANGED <<idx, results, ret, raised, returns>>
                         ELSE /\ AppendResult(e, ResSpawnFault(t.cmd))
                              /\ returns' = [returns EXCEPT ![e] = @ + 1]
                              /\ UNCHANGED <<proc, spawned>>
    /\ UNCHANGED <<fs, workflows, loaded, inline, ncalls, frame, tool_options, manager, run, parse, report, executor>>

\* the process exits: execute_tool returns (tool_manager.py:95-107), the
\* handler parses or passes the failure on, and the engine appends
ProcessExit(e) ==
    /\ pc[e] = "wait"
    /\ \E status \in ExitStatuses, out \in RawOutputs :
         /\ AppendResult(e, HandlerFinish(CurrentStep(e).tool, frame[e].target,
                                          ExecuteToolEnd(proc[e], status, out)))
         /\ spawned' = [spawned EXCEPT ![e][Len(spawned[e])] =
                            [@ EXCEPT !.status = status, !.out = out]]
    /\ proc' = [proc EXCEPT ![e] = NoCommand]
    /\ returns' = [returns EXCEPT ![e] = @ + 1]
    /\ UNCHANGED <<fs, workflows, loaded, inline, ncalls, frame, tool_options, calls, manager, run, parse, report, executor>>

\* One caller: each call begins after the one before it has returned.
Next ==
    \/ ExecuteWorkflow("x1")
    \/ CustomWorkflow("x1")
    \/ StepMerge("x1")
    \/ StepDispatch("x1")
    \/ ProcessExit("x1")

Spec == Init /\ [][Next]_vars

\* The interpreter runs the loop of a call on to its end (orchestrator.py:60,
\* 122), and every tool invocation returns: no call waits for its process
\* for ever (tool_manager.py:88).
LoopRuns ==
    /\ WF_vars(StepMerge("x1"))
    /\ WF_vars(StepDispatch("x1"))
    /\ []<>(pc["x1"] # "wait")

SpecLive == Spec /\ LoopRuns

\* One caller on the machines where msfconsole may be installed.
MetasploitFiles == {<<"/usr/bin", "msfconsole">>, <<"/usr/bin", "nmap">>}

InitMetasploit ==
    /\ fs \in SUBSET MetasploitFiles
    /\ inline \in StepLists
    /\ \E exists \in BOOLEAN : workflows = LoadWorkflows(exists, inline)
    /\ loaded = workflows
    /\ ncalls = 0
    /\ frame = [e \in ExecIds |-> NoFrame]
    /\ pc = [e \in ExecIds |-> "idle"]
    /\ idx = [e \in ExecIds |-> 0]
    /\ results = [e \in ExecIds |-> <<>>]
    /\ tool_options = [e \in ExecIds |-> LocalOptions]
    /\ proc = [e \in ExecIds |-> NoCommand]
    /\ ret = [e \in ExecIds |-> RetNone]
    /\ raised = [e \in ExecIds |-> <<>>]
    /\ calls = [e \in ExecIds |-> <<>>]
    /\ returns = [e \in ExecIds |-> 0]
    /\ spawned = [e \in ExecIds |-> <<>>]
    /\ manager = find_tool_paths(fs)
    /\ run = NoRun
    /\ parse = NoParse
    /\ report = NoReport
    /\ executor = NoExecutor

SpecMetasploit == InitMetasploit /\ [][Next]_vars

\* Two callers (threads) of execute_workflow on the one orchestrator.
NextConcurrent ==
    \E e \in ExecIds :
        \/ ExecuteWorkflow(e)
        \/ StepMerge(e)
        \/ StepDispatch(e)
        \/ ProcessExit(e)

SpecConcurrent == Init /\ [][NextConcurrent]_vars

\* ------------------------------------------- tools installed and removed
\* a tool is installed or removed while the orchestrator lives: the registry
\* self.manager built at construction keeps what it probed then
FsChange ==
    /\ \E file \in FsFiles :
          fs' = IF file \in fs THEN fs \ {file} ELSE fs \cup {file}
    /\ UNCHANGED <<workflows, loaded, inline, ncalls, frame, pc, idx, results, tool_options,
                   proc, ret, raised, calls, returns, spawned, manager, run, parse, report, executor>>

NextFsChange ==
    \/ ExecuteWorkflow("x1")
    \/ CustomWorkflow("x1")
    \/ StepMerge("x1")
    \/ StepDispatch("x1")
    \/ ProcessExit("x1")
    \/ FsChange

\* one caller on a machine whose tools come and go
SpecFsChange == Init /\ [][NextFsChange]_vars

\* ------------------------------------------- a KaliToolManager of its own
\* the files that may exist where a manager is constructed
RegistryFiles ==
    {<<"/usr/bin", "nmap">>, <<"/usr/local/bin", "nmap">>, <<"/opt/kali/bin", "nmap">>,
     <<"/usr/local/bin", "nikto">>, <<"/usr/bin", "msfconsole">>,
     <<"/opt/kali/bin", "metasploit">>}
\* the names execute_tool is called with, and its argument lists
RunnerTools == {"nmap", "nikto", "metasploit", "msfconsole", "john", "whois"}
RunnerArguments == {<<>>, <<"10.0.0.5", "-sV">>, <<"10.0.0.5", "80">>}
RunnerOutputs == {"22/tcp open ssh", ""}
\* the manager has not been constructed
Unbuilt == <<>>

\* the engine at rest: no workflow is loaded, no call is made
Quiescent ==
    /\ inline = <<>>
    /\ workflows = LoadWorkflows(FALSE, <<>>)
    /\ loaded = workflows
    /\ ncalls = 0
    /\ frame = [e \in ExecIds |-> NoFrame]
    /\ pc = [e \in ExecIds |-> "idle"]
    /\ idx = [e \in ExecIds |-> 0]
    /\ results = [e \in ExecIds |-> <<>>]
    /\ tool_options = [e \in ExecIds |-> LocalOptions]
    /\ proc = [e \in ExecIds |-> NoCommand]
    /\ ret = [e \in ExecIds |-> RetNone]
    /\ raised = [e \in ExecIds |-> <<>>]
    /\ calls = [e \in ExecIds |-> <<>>]
    /\ returns = [e \in ExecIds |-> 0]
    /\ spawned = [e \in ExecIds |-> <<>>]

engine == <<workflows, loaded, inline, ncalls, frame, pc, idx, results, tool_options,
            proc, ret, raised, calls, returns, spawned>>

InitManager ==
    /\ fs \in SUBSET RegistryFiles
    /\ manager = Unbuilt
    /\ run = NoRun
    /\ parse = NoParse
    /\ report = NoReport
    /\ executor = NoExecutor
    /\ Quiescent

\* KaliToolManager.__init__ (tool_manager.py:12-14)
ManagerConstruct ==
    /\ manager = Unbuilt
    /\ manager' = find_tool_paths(fs)
    /\ UNCHANGED <<fs, run, parse, engine, report, executor>>

\* KaliToolManager.execute_tool is called and runs up to the point where it
\* returns, raises, or waits for the process (tool_manager.py:80-93, 109-114)
ExecuteTool ==
    /\ manager # Unbuilt
    /\ run.phase \in {"idle", "returned", "raised"}
    /\ \E tool_name \in RunnerTools, arguments \in RunnerArguments :
         LET t == ExecuteToolStart(manager, tool_name, arguments)
             call == [NoRun EXCEPT !.tool_name = tool_name, !.arguments = arguments]
         IN  CASE t.outcome = "notfound" ->
                    run' = [call EXCEPT !.phase = "returned",
                                        !.result = ResNotFound(tool_name)]
               [] t.outcome = "raise" ->
                    run' = [call EXCEPT !.phase = "raised", !.cmd = t.cmd,
                                        !.attempts = 1,
                                        !.fault = <<"TypeError", "join">>]
               [] t.outcome = "spawn" ->
                    \E started \in BOOLEAN :
                        run' = IF started
                                 THEN [call EXCEPT !.phase = "running", !.cmd = t.cmd,
                                                   !.attempts = 1, !.processes = 1]
                                 ELSE [call EXCEPT !.phase = "returned", !.cmd = t.cmd,
                                                   !.attempts = 1,
                                                   !.result = ResSpawnFault(t.cmd)]
    /\ UNCHANGED <<fs, manager, parse, engine, report, executor>>

\* the process exits and execute_tool returns (tool_manager.py:95-107)
RunnerExit ==
    /\ run.phase = "running"
    /\ \E status \in ExitStatuses, out \in RunnerOutputs :
         run' = [run EXCEPT !.phase = "returned", !.status = status, !.stdout = out,
                            !.result = ExecuteToolEnd(run.cmd, status, out)]
    /\ UNCHANGED <<fs, manager, parse, engine, report, executor>>

NextManager ==
    \/ ManagerConstruct
    \/ ExecuteTool
    \/ RunnerExit

SpecManager == InitManager /\ [][NextManager]_vars

\* ------------------------------------------- the parsing stage of its own
\* pieces of tool output: a line of each kind the patterns look for, a line
\* none of them matches, and a line break
FragPort ==
    <<"2", "2", "/", "t", "c", "p", " ", "o", "p", "e", "n", " ", "s", "s",
      "h">>
FragPort2 ==
    <<"8", "0", "/", "t", "c", "p", " ", "o", "p", "e", "n", " ", "h", "t",
      "t", "p">>
FragHost ==
    <<"N", "m", "a", "p", " ", "s", "c", "a", "n", " ", "r", "e", "p", "o",
      "r", "t", " ", "f", "o", "r", " ", "g", "w", " ", "(", "1", "0", ".",
      "0", ".", "0", ".", "5", ")">>
FragNikto ==
    <<"+", " ", "O", "S", "V", "D", "B", "-", "3", "0", "9", "2", ":", " ",
      "/", "a", "d", "m", "i", "n", "/", " ", "f", "o", "u", "n", "d">>
FragCred ==
    <<"s", "s", "h", ":", "/", "/", "a", "d", "m", "i", "n", ":", "a", "d",
      "m", "i", "n", "1", "2", "3", "@", "1", "0", ".", "0", ".", "0", ".",
      "5">>
FragSession ==
    <<"S", "e", "s", "s", "i", "o", "n", " ", "1", " ", "c", "r", "e", "a",
      "t", "e", "d">>
FragInjection ==
    <<"s", "q", "l", "m", "a", "p", " ", "i", "d", "e", "n", "t", "i", "f",
      "i", "e", "d", " ", "t", "h", "e", " ", "f", "o", "l", "l", "o", "w",
      "i", "n", "g", " ", "i", "n", "j", "e", "c", "t", "i", "o", "n", " ",
      "p", "o", "i", "n", "t">>
FragNoise ==
    <<"d", "o", "n", "e", ".", " ">>
FragNewline ==
    <<"\n">>
\* a port line whose port number has one digit more than int() converts
FragLongPort ==
    [i \in 1..(int_max_str_digits + 1) |-> "9"] \o
        <<"/", "t", "c", "p", " ", "o", "p", "e", "n", " ", "s", "s", "h">>
OutputFragments ==
    {FragPort, FragPort2, FragHost, FragNikto, FragCred, FragSession, FragInjection,
     FragNoise, FragNewline}
\* how many pieces a raw output is put together from
MaxFragments == 3

RECURSIVE Texts(_)
Texts(n) ==
    IF n = 0 THEN {<<>>}
    ELSE Texts(n - 1) \cup {t \o f : t \in Texts(n - 1), f \in OutputFragments}

\* the raw outputs considered: the empty one, every text of up to MaxFragments
\* pieces, and the long port line
ParseTexts == Texts(MaxFragments) \cup {FragLongPort}

InitParse ==
    /\ fs = {}
    /\ manager = Unbuilt
    /\ run = NoRun
    /\ \E output \in ParseTexts : parse = [NoParse EXCEPT !.output = output]
    /\ report = NoReport
    /\ executor = NoExecutor
    /\ Quiescent

\* the parsing stage of the handler of `tool` on the output its process wrote:
\* tool_handlers.py:21-50 (nmap), 105-121 (nikto), 141-157 (sqlmap), 180-198
\* (hydra), 228-244 (metasploit)
ParseStage(tool) ==
    /\ parse.phase = "none"
    /\ parse' = IF ParseRaises(tool, parse.output)
                  THEN [parse EXCEPT !.phase = "raised", !.tool = tool]
                  ELSE [parse EXCEPT !.phase = "parsed", !.tool = tool,
                                     !.parsed = ParseOutput(tool, "10.0.0.5", parse.output)]
    /\ UNCHANGED <<fs, manager, run, engine, report, executor>>

NextParse == \E tool \in DispatchedTools : ParseStage(tool)

SpecParse == InitParse /\ [][NextParse]_vars

\* -------------------------------------------------------- Report Aggregator
\* KaliToolOrchestrator._generate_summary with a step counted in total_steps
\* and in neither of the other two counts
generate_summary_TotalOnly(combined_results) ==
    [total_steps |-> 1, successful_steps |-> 0, failed_steps |-> 0,
     high_risks |-> 0, medium_risks |-> 0, low_risks |-> 0]

\* KaliToolOrchestrator._generate_summary (orchestrator.py:182-195): the dict
\* of zeros it starts from is returned as it is, its argument is not read
generate_summary(combined_results) ==
    [total_steps |-> 0, successful_steps |-> 0, failed_steps |-> 0,
     high_risks |-> 0, medium_risks |-> 0, low_risks |-> 0]

\* KaliToolOrchestrator._extract_findings (orchestrator.py:197-203): the empty
\* list it starts from is returned, its argument is not read
extract_findings(combined_results) == <<>>

\* KaliToolOrchestrator._generate_recommendations (orchestrator.py:205-211)
generate_recommendations(combined_results) == <<>>

\* a WorkflowResult as the engine returns it: `ret` is the returned dict and
\* `steps` its results["steps"] or partial_results["steps"]
WorkflowResult(returned, steps) == [ret |-> returned, steps |-> steps]

\* generate_report, lines 164-172: a list is wrapped, a dict is taken as it is
Combined(given) ==
    IF given.many THEN [timestamp |-> "now", workflows |-> given.list]
    ELSE given.list[1]

\* KaliToolOrchestrator.generate_report (orchestrator.py:162-180)
generate_report(given) ==
    [summary |-> generate_summary(Combined(given)),
     findings |-> extract_findings(Combined(given)),
     recommendations |-> generate_recommendations(Combined(given)),
     raw_results |-> Combined(given)]

\* the StepResults the reports are built from: an nmap step that found a port,
\* an nmap step whose output was empty, and a nikto step that was not found
ReportCommand == Command(<<"/usr/bin", "nmap">>, <<"10.0.0.5", "-sV">>)
ReportStepResults ==
    {[name |-> "scan", tool |-> "nmap",
      result |-> HandlerFinish("nmap", "10.0.0.5", ResCompleted(ReportCommand, "22/tcp open ssh"))],
     [name |-> "scan", tool |-> "nmap",
      result |-> HandlerFinish("nmap", "10.0.0.5", ResCompleted(ReportCommand, ""))],
     [name |-> "probe", tool |-> "nikto", result |-> ResNotFound("nikto")]}
\* how many StepResults a WorkflowResult holds, and how many WorkflowResults a
\* caller hands to generate_report
MaxReportSteps == 2
MaxWorkflows == 2

\* the WorkflowResults: completed, or ended by a fault with the steps so far
WorkflowResults ==
    {WorkflowResult(returned, steps) :
        returned \in {RetSuccess, RetPartial(<<"KeyError", "tool">>)},
        steps \in SeqsUpTo(ReportStepResults, MaxReportSteps)}

\* the arguments of generate_report: one WorkflowResult, or a list of them
ReportArgs ==
    {[many |-> FALSE, list |-> <<w>>] : w \in WorkflowResults}
    \cup {[many |-> TRUE, list |-> l] : l \in SeqsUpTo(WorkflowResults, MaxWorkflows)}

InitReport ==
    /\ fs = {}
    /\ manager = Unbuilt
    /\ run = NoRun
    /\ parse = NoParse
    /\ \E given \in ReportArgs : report = [NoReport EXCEPT !.given = given]
    /\ executor = NoExecutor
    /\ Quiescent

\* KaliToolOrchestrator.generate_report is called and returns
GenerateReport ==
    /\ report.phase = "none"
    /\ report' = [report EXCEPT !.phase = "returned", !.report = generate_report(report.given)]
    /\ UNCHANGED <<fs, manager, run, parse, executor, engine>>

NextReport == GenerateReport

SpecReport == InitReport /\ [][NextReport]_vars

\* ------------------------------------------------------- Command Executor
\* A command is the sequence of its characters.
UpperCase ==
    <<"A", "B", "C", "D", "E", "F", "G", "H", "I", "J", "K", "L", "M", "N",
      "O", "P", "Q", "R", "S", "T", "U", "V", "W", "X", "Y", "Z">>
LowerCase ==
    <<"a", "b", "c", "d", "e", "f", "g", "h", "i", "j", "k", "l", "m", "n",
      "o", "p", "q", "r", "s", "t", "u", "v", "w", "x", "y", "z">>
\* str.lower
lower(T) ==
    [i \in 1..Len(T) |->
        IF \E k \in 1..Len(UpperCase) : UpperCase[k] = T[i]
          THEN LowerCase[CHOOSE k \in 1..Len(UpperCase) : UpperCase[k] = T[i]]
          ELSE T[i]]

\* `L in T` for two strings
Contains(T, L) == L = <<>> \/ \E i \in 1..Len(T) : LitAt(T, i, L)

\* the characters commands are written in that are no whitespace
Quotes == {"'", "\""}
NonSpace == WordChars \cup Punct \cup Quotes \cup {";", ">", "&", "|", "=", "\\"}

\* str.split(): the words between runs of whitespace
RECURSIVE split(_)
split(T) ==
    LET a == RunEnd(T, 1, Spaces)
        b == RunEnd(T, a, NonSpace)
    IN  IF a > Len(T) THEN <<>>
        ELSE <<Slice(T, a, b)>> \o split(Slice(T, b, Len(T) + 1))

\* " ".join(parts)
RECURSIVE join(_)
join(parts) ==
    IF parts = <<>> THEN <<>>
    ELSE IF Len(parts) = 1 THEN parts[1]
    ELSE parts[1] \o <<" ">> \o join(Tail(parts))

\* dangerous_patterns (command_executor.py:30-41)
dangerous_patterns ==
    {<<"r", "m", " ", "-", "r", "f">>, <<"d", "e", "l", " ", "/", "f">>,
     <<"f", "o", "r", "m", "a", "t">>, <<">">>, <<"2", ">">>, <<"&">>,
     <<"|">>, <<";">>, <<"m", "k", "f", "s">>, <<"d", "d">>}

\* CommandFormatter.validate_command (command_executor.py:26-43)
validate_command(command) ==
    ~\E pattern \in dangerous_patterns : Contains(lower(command), pattern)

\* TOOL_EQUIVALENTS (platform/windows.py:10-32), as <<Unix name, equivalent>>
TOOL_EQUIVALENTS ==
    {<<<<"l", "s">>, <<"d", "i", "r">>>>,
     <<<<"c", "a", "t">>, <<"t", "y", "p", "e">>>>,
     <<<<"r", "m">>, <<"d", "e", "l">>>>,
     <<<<"c", "p">>, <<"c", "o", "p", "y">>>>,
     <<<<"m", "v">>, <<"m", "o", "v", "e">>>>,
     <<<<"m", "k", "d", "i", "r">>, <<"m", "k", "d", "i", "r">>>>,
     <<<<"p", "w", "d">>, <<"c", "d">>>>,
     <<<<"w", "h", "i", "c", "h">>, <<"w", "h", "e", "r", "e">>>>,
     <<<<"g", "r", "e", "p">>, <<"f", "i", "n", "d", "s", "t", "r">>>>,
     <<<<"h", "e", "a", "d">>, <<"m", "o", "r", "e", " ", "+", "1">>>>,
     <<<<"t", "a", "i", "l">>, <<"m", "o", "r", "e", " ", "+", "1">>>>,
     <<<<"s", "e", "d">>, <<"p", "o", "w", "e", "r", "s", "h", "e", "l", "l", " ", "-", "C", "o", "m", "m", "a", "n", "d">>>>,
     <<<<"a", "w", "k">>, <<"p", "o", "w", "e", "r", "s", "h", "e", "l", "l", " ", "-", "C", "o", "m", "m", "a", "n", "d">>>>,
     <<<<"c", "h", "m", "o", "d">>, <<"a", "t", "t", "r", "i", "b">>>>,
     <<<<"p", "s">>, <<"t", "a", "s", "k", "l", "i", "s", "t">>>>,
     <<<<"k", "i", "l", "l">>, <<"t", "a", "s", "k", "k", "i", "l", "l">>>>,
     <<<<"n", "e", "t", "s", "t", "a", "t">>, <<"n", "e", "t", "s", "t", "a", "t", " ", "-", "a", "n">>>>,
     <<<<"i", "f", "c", "o", "n", "f", "i", "g">>, <<"i", "p", "c", "o", "n", "f", "i", "g">>>>,
     <<<<"p", "i", "n", "g">>, <<"p", "i", "n", "g">>>>,
     <<<<"t", "r", "a", "c", "e", "r", "o", "u", "t", "e">>, <<"t", "r", "a", "c", "e", "r", "t">>>>,
     <<<<"n", "m", "a", "p">>, <<"n", "m", "a", "p">>>>}

\* convert_command (platform/windows.py:35-76)
convert_command(command) ==
    LET parts == split(command)
        cmd_name == lower(parts[1])
        known == \E eq \in TOOL_EQUIVALENTS : eq[1] = cmd_name
        named == <<(CHOOSE eq \in TOOL_EQUIVALENTS : eq[1] = cmd_name)[2]>>
        rest == Tail(parts)
    IN  IF Contains(lower(command), <<"n", "m", "a", "p">>) THEN command
        ELSE IF parts = <<>> THEN command
        ELSE IF ~known THEN join(parts)
        ELSE IF cmd_name = <<"l", "s">>
          THEN IF ~Contains(command, <<"/", "l">>) /\ ~Contains(command, <<"-", "l">>)
                 THEN join(named \o rest \o <<<<"/", "b">>>>)
                 ELSE join(named \o rest)
        ELSE IF cmd_name = <<"r", "m">>
          THEN IF Contains(command, <<"-", "r", "f">>) \/ Contains(command, <<"-", "r">>)
                 THEN join(named \o <<<<"/", "s">>, <<"/", "f">>>> \o rest)
                 ELSE join(named \o rest)
        ELSE IF cmd_name = <<"p", "s">>
          THEN join(named \o rest \o <<<<"/", "f", "o">>, <<"c", "s", "v">>, <<"/", "n", "h">>>>)
        ELSE IF cmd_name = <<"g", "r", "e", "p">>
          THEN join(named \o <<<<"/", "i">>>> \o rest)
        ELSE join(named \o rest)

\* CommandFormatter.format_command (command_executor.py:17-24)
format_command(windows, command) ==
    IF windows THEN convert_command(command) ELSE command

\* shlex.split(command): the quotation open at the end of T ("" when none
\* is), reading from i with the quotation q open.  No command considered
\* holds a backslash.
RECURSIVE OpenQuote(_, _, _)
OpenQuote(T, i, q) ==
    IF i > Len(T) THEN q
    ELSE IF q = "" THEN OpenQuote(T, i + 1, IF T[i] \in Quotes THEN T[i] ELSE "")
    ELSE OpenQuote(T, i + 1, IF T[i] = q THEN "" ELSE q)

\* shlex.split(command)[0]: the first token, read from i with q open; quote
\* characters are dropped and whitespace inside a quotation belongs to the token
RECURSIVE FirstToken(_, _, _)
FirstToken(T, i, q) ==
    IF i > Len(T) THEN <<>>
    ELSE IF q = ""
      THEN IF T[i] \in Spaces THEN <<>>
           ELSE IF T[i] \in Quotes THEN FirstToken(T, i + 1, T[i])
           ELSE <<T[i]>> \o FirstToken(T, i + 1, "")
    ELSE IF T[i] = q THEN FirstToken(T, i + 1, "")
    ELSE <<T[i]>> \o FirstToken(T, i + 1, q)

\* shlex.split(command)[0] (command_executor.py:55): the exception it raises
\* (<<>>: none) and the token
shlex_first(command) ==
    IF OpenQuote(command, 1, "") # ""
      THEN [fault |-> <<"ValueError", "No closing quotation">>, cmd |-> <<>>]
    ELSE IF RunEnd(command, 1, Spaces) > Len(command)
      THEN [fault |-> <<"IndexError", "list index out of range">>, cmd |-> <<>>]
    ELSE [fault |-> <<>>, cmd |-> FirstToken(command, RunEnd(command, 1, Spaces), "")]

\* SecurityContext.is_command_allowed (command_executor.py:53-59)
is_command_allowed(security_level, allowed_commands, command) ==
    IF shlex_first(command).fault # <<>>
      THEN [fault |-> shlex_first(command).fault, allowed |-> FALSE]
    ELSE [fault |-> <<>>,
          allowed |-> \/ shlex_first(command).cmd \in allowed_commands
                      \/ security_level = "permissive"]

\* the commands callers hand to execute
ExecutorCommands ==
    { <<>>,
      <<" ">>,
      <<"l", "s">>,
      <<"l", "s", " ", "-", "l", "a">>,
      <<"r", "m", " ", "-", "r", "f", " ", "x">>,
      <<"R", "M", " ", "-", "R", "F", " ", "x">>,
      <<"e", "c", "h", "o", " ", "'", "a">>,
      <<"'", "l", "s", "'", " ", "-", "l", "a">>,
      <<"l", "s", ";", " ", "i", "d">>,
      <<"d", "e", "l", " ", "/", "f", " ", "x">>,
      <<"p", "s">>,
      <<"n", "m", "a", "p", " ", "1", "0", ".", "0", ".", "0", ".", "5">> }

\* the results execute returns before a process exists, and the result made
\* of the exit status of the process (command_executor.py:119-124)
Refused(error) == [success |-> FALSE, error |-> error]
Exited(returncode) == [success |-> returncode = 0, return_code |-> returncode]
\* the commands an allow list is made of
AllowedNames == {<<"l", "s">>, <<"d", "i", "r">>}

\* execute up to the try block (command_executor.py:80-94): the formatted
\* command, whether it went through each check, the result returned or the
\* exception raised before the process is created
Checked(ex, command) ==
    LET formatted_cmd == format_command(ex.windows, command)
        valid == validate_command(formatted_cmd)
        policy == is_command_allowed(ex.security_level, ex.allowed_commands, formatted_cmd)
    IN  [formatted |-> formatted_cmd,
         validated |-> valid,
         allowed |-> valid /\ policy.allowed,
         fault |-> IF valid THEN policy.fault ELSE <<>>,
         refusal |-> IF ~valid THEN <<Refused("Command contains dangerous patterns")>>
                     ELSE IF policy.fault = <<>> /\ ~policy.allowed
                       THEN <<Refused("Command not allowed by security policy")>>
                     ELSE <<>>]

\* the CommandExecutor as constructed with a security context
\* (command_executor.py:48-51, 70-75) on either platform
InitExecutor ==
    /\ fs = {}
    /\ manager = Unbuilt
    /\ run = NoRun
    /\ parse = NoParse
    /\ report = NoReport
    /\ \E windows \in BOOLEAN, security_level \in {"strict", "permissive"},
          allowed_commands \in SUBSET AllowedNames :
           executor = [NoExecutor EXCEPT !.phase = "idle",
                                         !.windows = windows,
                                         !.security_level = security_level,
                                         !.allowed_commands = allowed_commands]
    /\ Quiescent

\* CommandExecutor.execute (command_executor.py:77-152) up to the creation of
\* the process: a refusal is returned, the exception of the policy check
\* leaves execute, Popen raises inside the try block, or the process runs
Execute(command) ==
    LET c == Checked(executor, command)
        called == [executor EXCEPT !.command = command,
                                   !.formatted = c.formatted,
                                   !.validated = c.validated,
                                   !.allowed = c.allowed,
                                   !.spawned = <<>>,
                                   !.result = <<>>,
                                   !.raised = <<>>]
    IN  /\ executor.phase \in {"idle", "returned", "raised"}
        /\ IF c.refusal # <<>>
             THEN executor' = [called EXCEPT !.phase = "returned", !.result = c.refusal]
           ELSE IF c.fault # <<>>
             THEN executor' = [called EXCEPT !.phase = "raised", !.raised = c.fault]
           ELSE \/ executor' = [called EXCEPT !.phase = "running",
                                              !.spawned = <<c.formatted>>]
                \/ executor' = [called EXCEPT !.phase = "returned",
                                              !.result = <<Refused("OSError")>>]
        /\ UNCHANGED <<fs, manager, run, parse, report, engine>>

\* process.communicate() returns and execute returns the result
\* (command_executor.py:116-146)
Communicate(returncode) ==
    /\ executor.phase = "running"
    /\ executor' = [executor EXCEPT !.phase = "returned", !.result = <<Exited(returncode)>>]
    /\ UNCHANGED <<fs, manager, run, parse, report, engine>>

NextExecutor ==
    \/ \E command \in ExecutorCommands : Execute(command)
    \/ \E returncode \in ExitStatuses : Communicate(returncode)

SpecExecutor == InitExecutor /\ [][NextExecutor]_vars

\* ================================================================ claims
Returned(e) == pc[e] = "returned"

\* the call found its step list and entered the loop over it
Entered(e) ==
    \/ frame[e].kind = "custom_workflow"
    \/ frame[e].kind = "execute_workflow" /\ loaded[frame[e].workflow_name].present

NumSpecs(e) == Len(Steps(e))

\* the StepResult entries the returned value carries
Carried(e) ==
    IF ret[e].keys \cap {"results", "partial_results"} # {} THEN results[e] ELSE <<>>

\* the handler of step k was called and its StepResult reports failure
HandlerFailedAt(e, k) ==
    /\ k \in 1..Len(results[e])
    /\ ~results[e][k].result.success
    /\ \E j \in 1..Len(calls[e]) : calls[e][j].k = k

\* the caller's override for step k of execution e
Override(e, k) ==
    LET step == frame[e].given[k]
    IN  IF ~frame[e].options.none /\ step.name \in frame[e].options.keys
          THEN frame[e].options.items ELSE <<>>

C2_StepResultCount ==
    \A e \in ExecIds :
        Entered(e) =>
            /\ Len(results[e]) <= NumSpecs(e)
            /\ Returned(e) =>
                  (Len(Carried(e)) = NumSpecs(e) <=> raised[e] = <<>>)

C2_Witness ==
    \E e \in ExecIds :
        Returned(e) /\ NumSpecs(e) = 2 /\ raised[e] # <<>> /\ Len(Carried(e)) = 1

\* C3: execute_workflow with a name that is no key of the loaded workflow set
\* returns success=false with the 'not found' error and neither results nor
\* partial_results, calls no handler and spawns no process.
C3_UnknownWorkflow ==
    \A e \in ExecIds :
        frame[e].kind = "execute_workflow" /\ ~loaded[frame[e].workflow_name].present =>
            /\ Returned(e)
            /\ ~ret[e].success
            /\ ret[e].error = <<"Workflow", frame[e].workflow_name, "not found">>
            /\ ret[e].keys \cap {"results", "partial_results"} = {}
            /\ Carried(e) = <<>>
            /\ calls[e] = <<>> /\ returns[e] = 0 /\ spawned[e] = <<>>

\* the workflow definition source is absent and a call has returned
C3_Witness ==
    \E e \in ExecIds :
        /\ \A n \in WorkflowNames : ~loaded[n].present
        /\ frame[e].kind = "execute_workflow" /\ Returned(e)
        /\ ret[e] = RetNotFound(frame[e].workflow_name)

\* C4: when step k raises an unexpected fault the call returns success=false
\* with the fault's description and partial_results holding exactly the
\* StepResults of steps 1..k-1 in order; no step after k is executed.
C4_PartialResults ==
    \A e \in ExecIds :
        raised[e] # <<>> =>
            /\ Returned(e)
            /\ ~ret[e].success /\ ret[e].error = raised[e]
            /\ "partial_results" \in ret[e].keys /\ "results" \notin ret[e].keys
            /\ Len(Carried(e)) = idx[e] - 1
            /\ \A j \in 1..Len(Carried(e)) :
                  /\ Carried(e)[j].name = ResultName(frame[e].kind, Steps(e)[j])
                  /\ Carried(e)[j].tool = Steps(e)[j].tool
            /\ \A j \in 1..Len(calls[e]) : calls[e][j].k <= idx[e]
            /\ \A j \in 1..Len(spawned[e]) : spawned[e][j].k <= idx[e]

\* the second step has no tool: the first step's StepResult is returned
C4_Witness ==
    \E e \in ExecIds :
        /\ raised[e] = <<"KeyError", "tool">> /\ idx[e] = 2
        /\ Len(Carried(e)) = 1 /\ NumSpecs(e) = 2

\* C5: within one execution the handlers are called one at a time, in StepSpec
\* order: a handler call begins only when every earlier one has returned, for
\* a later step than every earlier one; and the i-th StepResult carries the
\* name (the placeholder, for a step without one) and the tool of the i-th
\* StepSpec.
C5_Sequential ==
    [][\A e \in ExecIds :
          /\ Len(calls'[e]) = Len(calls[e]) + 1 =>
                /\ returns[e] = Len(calls[e])
                /\ pc[e] = "dispatch"
                /\ \A j \in 1..Len(calls[e]) : calls[e][j].k < calls'[e][Len(calls'[e])].k
          /\ Len(results'[e]) = Len(results[e]) + 1 =>
                LET i == Len(results'[e])
                    step == Steps(e)[i]
                IN  /\ i = idx[e]
                    /\ results'[e][i].tool = step.tool
                    /\ results'[e][i].name =
                          IF step.name = NoKey THEN "unnamed_step" ELSE step.name
                    /\ \A j \in 1..Len(results[e]) : results'[e][j] = results[e][j]
      ]_vars

\* two handler calls were made, both have returned, both StepResults are kept
C5_Witness ==
    \E e \in ExecIds :
        /\ Len(calls[e]) = 2 /\ returns[e] = 2 /\ Len(results[e]) = 2
        /\ calls[e][1].k = 1 /\ calls[e][2].k = 2

\* C6 as stated: the option list handed to a step's handler is the step's
\* configured options followed by the caller's override for that step name.
C6_HandedOptions ==
    \A e \in ExecIds :
        frame[e].kind = "execute_workflow" =>
            \A j \in 1..Len(calls[e]) :
                LET k == calls[e][j].k
                    configured == loaded[frame[e].workflow_name].steps[k].options
                IN  configured.kind # "str" =>
                        calls[e][j].options.items = configured.items \o Override(e, k)

\* C7 as stated: the loaded workflow definitions are never modified.
C7_WorkflowsReadOnly == workflows = loaded

\* C8 as stated: of two interleaved executions, each hands its handlers the
\* option lists it would hand them had it run alone, from the step list as it
\* was when the execution was called.
C8_NoInterference ==
    \A e \in ExecIds :
        \A j \in 1..Len(calls[e]) :
            LET k == calls[e][j].k
                own == frame[e].given[k].options
            IN  own.kind # "str" =>
                    calls[e][j].options.items = own.items \o Override(e, k)

C10_AlwaysStructured ==
    \A e \in ExecIds :
        /\ pc[e] # "propagated"
        /\ raised[e] # <<>> => Returned(e)
        /\ Returned(e) =>
              /\ ret[e].keys \in {{"error"}, {"results"}, {"error", "partial_results"}}
              /\ ret[e].success <=> ret[e].keys = {"results"}
              /\ ~ret[e].success <=> ret[e].error # <<>>

\* a fault raised inside the tool runner ended a call of custom_workflow
C10_Witness ==
    \E e \in ExecIds :
        /\ frame[e].kind = "custom_workflow" /\ Returned(e)
        /\ raised[e] = <<"TypeError", "join">>
        /\ ret[e] = RetPartial(raised[e])

\* ---------------------------------------------------------------- C11..C20
\* the step has a name and a list of options
WellFormed(step) ==
    step.name # NoKey /\ step.tool # NoKey /\ step.options.kind # "str"

\* the process spawned for step k of execution e exited with `status`, having
\* written `out`
ExitedWith(e, k, status, out) ==
    \E c \in 1..Len(spawned[e]) :
        spawned[e][c].k = k /\ spawned[e][c].status = status /\ spawned[e][c].out = out

\* the scenario of C11: two well-formed steps, nmap then nikto, on target
\* 10.0.0.5; nmap resolves, ran and exited with status 0 having written
\* "22/tcp open ssh"; nikto does not resolve
C11_Scenario(e) ==
    /\ Returned(e) /\ Entered(e) /\ frame[e].target = "10.0.0.5"
    /\ NumSpecs(e) = 2
    /\ Steps(e)[1].tool = "nmap" /\ Steps(e)[2].tool = "nikto"
    /\ WellFormed(Steps(e)[1]) /\ WellFormed(Steps(e)[2])
    /\ is_tool_available(find_tool_paths(fs), "nmap")
    /\ ~is_tool_available(find_tool_paths(fs), "nikto")
    /\ ExitedWith(e, 1, 0, "22/tcp open ssh")

C12_UnnamedCustomStep ==
    \A e \in ExecIds :
        frame[e].kind = "custom_workflow" =>
            \A j \in 1..NumSpecs(e) :
                LET step == Steps(e)[j]
                IN  (step.name = NoKey /\ step.tool # NoKey /\ step.options.kind # "str") =>
                        /\ ~(idx[e] = j /\ raised[e] = <<"KeyError", "name">>)
                        /\ Len(results[e]) >= j => results[e][j].name = "unnamed_step"

\* an execute_tool call has been made on the manager
Called == run.phase # "idle"

\* the registry holds a path for `name`
Resolved(name) == name \in DOMAIN manager /\ manager[name] # NoPath

\* C13: execute_tool on a tool name the registry has not resolved returns
\* success=false with the error 'Tool <name> not found', and neither calls
\* subprocess.run nor starts a process.
C13_NotFound ==
    (Called /\ ~Resolved(run.tool_name)) =>
        /\ run.phase = "returned"
        /\ ~run.result.success
        /\ run.result.keys = {"error"}
        /\ run.result.error = <<"Tool", run.tool_name, "not found">>
        /\ run.attempts = 0 /\ run.processes = 0

\* the handler of metasploit asks for "msfconsole", which is no registry key
\* even where /usr/bin/msfconsole exists
C13_Witness ==
    /\ Called /\ run.tool_name = "msfconsole" /\ Resolved("metasploit")
    /\ run.result = ResNotFound("msfconsole")

\* C14: when the process spawned for a step exits with a non-zero status,
\* execute_tool returns success=false with an error description and the
\* standard output the process wrote, the handler returns that very result,
\* and the StepResult of the step carries it.
C14_NonZeroExit ==
    \A e \in ExecIds :
        \A c \in 1..Len(spawned[e]) :
            LET p == spawned[e][c]
            IN  p.status \notin {0, Running} =>
                    /\ WellFormed(Steps(e)[p.k]) => Len(results[e]) >= p.k
                    /\ Len(results[e]) >= p.k =>
                          LET r == results[e][p.k].result
                          IN  /\ ~r.success
                              /\ r.error # <<>>
                              /\ "output" \in r.keys /\ r.output = p.out
                              /\ r.keys = {"error", "output", "command"}
                              /\ r.parsed = NoParsed

C14_Witness ==
    \E e \in ExecIds :
        /\ Returned(e) /\ Len(Carried(e)) = 2
        /\ ExitedWith(e, 1, 1, "22/tcp open ssh")
        /\ Carried(e)[1].result.output = "22/tcp open ssh"
        /\ ~Carried(e)[1].result.success

\* C15: every result execute_tool returns from a call that reached
\* subprocess.run carries the command line, the resolved path followed by the
\* arguments: on success, on a non-zero exit and on a spawn fault alike.
C15_CommandRecorded ==
    (run.phase = "returned" /\ run.attempts >= 1) =>
        /\ "command" \in run.result.keys
        /\ run.result.command.path = manager[run.tool_name]
        /\ run.result.command.path # NoPath
        /\ run.result.command.args = run.arguments

\* the spawn failed: the result still names the command
C15_Witness ==
    /\ run.phase = "returned" /\ run.attempts = 1 /\ run.processes = 0
    /\ run.arguments = <<"10.0.0.5", "-sV">>
    /\ run.result.command = Command(<<"/usr/local/bin", "nmap">>, run.arguments)

\* C17 as stated: execute_tool never raises; a fault while the command is
\* built or spawned is returned as success=false with the fault's description
\* and no output.
C17_NeverRaises ==
    /\ run.phase # "raised"
    /\ (run.phase = "returned" /\ run.attempts = 1 /\ run.processes = 0) =>
          /\ ~run.result.success /\ run.result.error # <<>>
          /\ "output" \notin run.result.keys

\* the engine reached the dispatch of lines 91-102 for step k of execution e
Dispatched(e, k) ==
    /\ k < idx[e] \/ (k = idx[e] /\ pc[e] \in {"wait", "returned"})
    /\ MergeOptions(Steps(e)[k], frame[e].options).fault = <<>>

\* the handler calls made for step k
CallsOf(e, k) == {j \in 1..Len(calls[e]) : calls[e][j].k = k}

\* C16 as stated: each handler call makes exactly one execute_tool call and
\* each of those at most one spawn; a workflow of n steps spawns at most n
\* processes, with one spawn for each step that is dispatched to a handler
\* whose tool is resolved; no step is executed twice.
C16_Original ==
    \A e \in ExecIds :
        Entered(e) =>
            /\ \A j \in 1..Len(calls[e]) : calls[e][j].runs = 1 /\ calls[e][j].attempts <= 1
            /\ Len(spawned[e]) <= NumSpecs(e)
            /\ \A k \in 1..NumSpecs(e) :
                  /\ Cardinality(CallsOf(e, k)) <= 1
                  /\ (/\ Dispatched(e, k)
                      /\ Steps(e)[k].tool \in DispatchedTools
                      /\ Resolved(HandlerTool(Steps(e)[k].tool))) =>
                        \E j \in CallsOf(e, k) : calls[e][j].attempts = 1

\* C16 amended: each handler call makes at most one execute_tool call, one
\* when the options it is handed are a list, and each of those at most one
\* spawn attempt; a workflow of n steps makes at most n handler calls and
\* spawns at most n processes, at most one per step and none where the
\* handler's registry key is not resolved, with exactly one spawn attempt for
\* each step that is dispatched with a list of options to a handler whose
\* registry key is resolved; no step is executed twice.
C16_OneAttempt ==
    \A e \in ExecIds :
        Entered(e) =>
            /\ \A j \in 1..Len(calls[e]) :
                  /\ calls[e][j].runs <= 1 /\ calls[e][j].attempts <= calls[e][j].runs
                  /\ calls[e][j].options.kind = "list" => calls[e][j].runs = 1
            /\ Len(calls[e]) <= NumSpecs(e) /\ Len(spawned[e]) <= NumSpecs(e)
            /\ \A c \in 1..Len(spawned[e]) :
                  /\ \A c2 \in 1..Len(spawned[e]) : spawned[e][c2].k = spawned[e][c].k => c2 = c
                  /\ \E j \in CallsOf(e, spawned[e][c].k) : calls[e][j].attempts = 1
                  /\ Resolved(HandlerTool(Steps(e)[spawned[e][c].k].tool))
            /\ \A k \in 1..NumSpecs(e) :
                  /\ Cardinality(CallsOf(e, k)) <= 1
                  /\ (/\ Dispatched(e, k)
                      /\ Steps(e)[k].options.kind # "str"
                      /\ Steps(e)[k].tool \in DispatchedTools
                      /\ Resolved(HandlerTool(Steps(e)[k].tool))) =>
                        \E j \in CallsOf(e, k) : calls[e][j].attempts = 1

\* a step failed with a non-zero exit and was not run again: one process each
C16_Witness ==
    \E e \in ExecIds :
        /\ Returned(e) /\ NumSpecs(e) = 2 /\ Len(spawned[e]) = 2
        /\ spawned[e][1].status = 1 /\ spawned[e][1].k = 1 /\ spawned[e][2].k = 2
        /\ Len(calls[e]) = 2

\* C18: tool resolution is fixed when the orchestrator is constructed: a step
\* spawns only a tool that the registry built at construction resolved, and a
\* step handed a list of options whose tool that registry resolved always
\* makes its spawn attempt, whatever happened to the filesystem since.
C18_FixedAtConstruction ==
    \A e \in ExecIds :
        Entered(e) =>
            /\ \A c \in 1..Len(spawned[e]) :
                  Resolved(HandlerTool(Steps(e)[spawned[e][c].k].tool))
            /\ \A j \in 1..Len(calls[e]) :
                  (/\ calls[e][j].options.kind = "list"
                   /\ Resolved(HandlerTool(Steps(e)[calls[e][j].k].tool))) =>
                        calls[e][j].attempts = 1

\* the directories of common_paths that hold a file named as the tool
Holding(tool) == {j \in 1..Len(common_paths) : <<common_paths[j], tool>> \in fs}

\* C19: a constructed registry resolves each configured tool to its default
\* path if that exists, and otherwise to the file of its name in the first
\* directory, in probe order, that holds one; a tool found nowhere is absent;
\* is_tool_available is true exactly for the names that resolved.
C19_Registry ==
    manager # Unbuilt =>
        /\ \A tool \in ConfiguredTools :
              IF DefaultPath(tool) \in fs THEN manager[tool] = DefaultPath(tool)
              ELSE IF Holding(tool) = {} THEN manager[tool] = NoPath
              ELSE \E j \in Holding(tool) :
                      /\ manager[tool] = <<common_paths[j], tool>>
                      /\ \A h \in 1..(j - 1) : h \notin Holding(tool)
        /\ \A name \in RunnerTools \cup ConfiguredTools :
              is_tool_available(manager, name) <=>
                  /\ name \in ConfiguredTools
                  /\ DefaultPath(name) \in fs \/ Holding(name) # {}

\* nmap is missing at its default path and held by two later directories,
\* nikto is nowhere, and a call has been made on the registry built there
C19_Witness ==
    /\ manager # Unbuilt
    /\ DefaultPath("nmap") \notin fs
    /\ Holding("nmap") = {2, 3}
    /\ manager["nmap"] = <<"/usr/local/bin", "nmap">>
    /\ DefaultPath("nikto") \notin fs /\ Holding("nikto") = {}
    /\ ~is_tool_available(manager, "nikto")
    /\ run.phase = "returned" /\ run.tool_name = "nikto"

\* the keys of `parsed` that hold a list, for each handler
\* (tool_handlers.py:21-26, 105-109, 141-146, 180-183, 228-231)
CollectionKeys(tool) ==
    CASE tool = "nmap" -> {"hosts", "ports", "services"}
      [] tool = "nikto" -> {"vulnerabilities", "information"}
      [] tool = "sqlmap" -> {"vulnerabilities", "databases", "tables"}
      [] tool = "hydra" -> {"credentials"}
      [] OTHER -> {"sessions"}

\* the collections a pattern fills, as <<handler, key, pattern>>
Filled ==
    {<<"nmap", "hosts", "host_pattern">>, <<"nmap", "ports", "port_pattern">>,
     <<"nikto", "vulnerabilities", "vuln_pattern">>,
     <<"hydra", "credentials", "cred_pattern">>,
     <<"metasploit", "sessions", "session_pattern">>}

\* ms are the matches of the pattern in T from left to right: each stands
\* where the pattern matches, none overlaps the one before it, and the pattern
\* matches nowhere between them or after the last
LeftToRight(pattern, T, ms) ==
    /\ \A k \in 1..Len(ms) :
          /\ ms[k].ok /\ ms[k] = TryAt(pattern, T, ms[k].at)
          /\ \A i \in (IF k = 1 THEN 1 ELSE ms[k - 1].end)..(ms[k].at - 1) :
                ~TryAt(pattern, T, i).ok
    /\ \A i \in (IF ms = <<>> THEN 1 ELSE ms[Len(ms)].end)..Len(T) :
          ~TryAt(pattern, T, i).ok

\* a payload has the collections of its handler, each a list, and the lists
\* the patterns fill hold the findings of the matches from left to right
ParsedInOrder ==
    parse.phase = "parsed" =>
        LET c == parse.parsed.collections
        IN  /\ DOMAIN c = CollectionKeys(parse.tool)
            /\ \A key \in DOMAIN c : DOMAIN c[key] = 1..Len(c[key])
            /\ \A f \in Filled :
                  f[1] = parse.tool =>
                      LET ms == Scan(f[3], parse.output, 1)
                      IN  /\ LeftToRight(f[3], parse.output, ms)
                          /\ c[f[2]] = [k \in 1..Len(ms) |-> ms[k].finding]
            /\ \A key \in DOMAIN c :
                  (\A f \in Filled : ~(f[1] = parse.tool /\ f[2] = key)) =>
                      Len(c[key]) <= 1

\* C20: for every raw output the parsing stage of each handler completes
\* without raising and yields a payload whose collections are all present,
\* with the findings in the order they match.
C20_ParsingNeverRaises ==
    parse.phase # "none" => parse.phase = "parsed" /\ ParsedInOrder

\* ---------------------------------------------------------------- reports
\* generate_report has returned
Reported == report.phase = "returned"

\* the StepResults of the WorkflowResults ws, in the order they were supplied
RECURSIVE StepResultsOf(_)
StepResultsOf(ws) ==
    IF ws = <<>> THEN <<>> ELSE ws[1].steps \o StepResultsOf(Tail(ws))

\* how many of the StepResults srs have the success flag `flag`
Flagged(srs, flag) == Cardinality({i \in 1..Len(srs) : srs[i].result.success = flag})

\* C21: in every report, for one WorkflowResult or a list of them,
\* summary.successful_steps + summary.failed_steps = summary.total_steps.
C21_CountsAddUp ==
    Reported =>
        report.report.summary.successful_steps + report.report.summary.failed_steps
            = report.report.summary.total_steps

\* a report has been returned for a list of two WorkflowResults that hold a
\* step that succeeded and a step that failed
C21_Witness ==
    /\ Reported
    /\ report.given.many /\ Len(report.given.list) = 2
    /\ Flagged(StepResultsOf(report.given.list), TRUE) > 0
    /\ Flagged(StepResultsOf(report.given.list), FALSE) > 0
    /\ report.report.raw_results.workflows = report.given.list

\* C22: summary.total_steps is the number of StepResults across the supplied
\* WorkflowResults, successful_steps the number of those with success=true,
\* failed_steps the number of those with success=false.
C22_CountsAreTheSteps ==
    Reported =>
        LET srs == StepResultsOf(report.given.list)
        IN  /\ report.report.summary.total_steps = Len(srs)
            /\ report.report.summary.successful_steps = Flagged(srs, TRUE)
            /\ report.report.summary.failed_steps = Flagged(srs, FALSE)

\* the keys of a handler's `parsed` that hold a list, in the order the
\* handler writes them (tool_handlers.py:21-26, 105-109, 141-146, 180-183, 228-231)
CollectionOrder(tool) ==
    CASE tool = "nmap" -> <<"hosts", "ports", "services">>
      [] tool = "nikto" -> <<"vulnerabilities", "information">>
      [] tool = "sqlmap" -> <<"vulnerabilities", "databases", "tables">>
      [] tool = "hydra" -> <<"credentials">>
      [] OTHER -> <<"sessions">>

\* the parsed findings of one StepResult, in parsed order, each tagged with
\* the step name and the tool
RECURSIVE Tagged(_, _)
Tagged(sr, keys) ==
    IF keys = <<>> \/ "parsed" \notin sr.result.keys THEN <<>>
    ELSE [i \in 1..Len(sr.result.parsed.collections[keys[1]]) |->
             [step |-> sr.name, tool |-> sr.tool,
              finding |-> sr.result.parsed.collections[keys[1]][i]]]
         \o Tagged(sr, Tail(keys))

RECURSIVE Flattened(_)
Flattened(srs) ==
    IF srs = <<>> THEN <<>>
    ELSE Tagged(srs[1], CollectionOrder(srs[1].tool)) \o Flattened(Tail(srs))

\* C23: the findings list of a report built from N StepResults, the i-th
\* contributing Fi parsed findings, has F1 + ... + FN entries, in step order
\* and within a step in parsed order, each tagged with its step name and tool.
C23_FindingsFlattened ==
    Reported => report.report.findings = Flattened(StepResultsOf(report.given.list))

\* execute has been called and has ended, by a return or by an exception
Executed == executor.phase \in {"returned", "raised"}
\* the security context did not let the formatted command through
Denied == Executed /\ executor.validated /\ ~executor.allowed
\* the command handed to execute holds a dangerous pattern
Dangerous(command) == \E pattern \in dangerous_patterns : Contains(lower(command), pattern)

\* C24: whenever the security context denies the formatted command, execute
\* returns the failure result "Command not allowed by security policy"; the
\* denial is a returned result and never an exception, whatever the command
\* string, the empty one and one the policy check cannot tokenize included.
C24_DenialsAreResults ==
    Denied => /\ executor.phase = "returned"
              /\ executor.result = <<Refused("Command not allowed by security policy")>>

\* C30: a process is spawned only for a command that passed the
\* dangerous-pattern validation and then the security-context check; a command
\* that holds a dangerous pattern is refused in permissive mode too; with the
\* default security context (strict, empty allow list) nothing is spawned.
C30_SpawnOnlyChecked ==
    /\ executor.spawned # <<>> => executor.validated /\ executor.allowed
    /\ Dangerous(executor.command) => executor.spawned = <<>>
    /\ (executor.security_level = "strict" /\ executor.allowed_commands = {})
           => executor.spawned = <<>>

\* the steps of execution e whose handler was invoked
InvokedSteps(e) == {calls[e][j].k : j \in 1..Len(calls[e])}
\* the steps of a tool that has a handler with a StepResult in the returned value
ResultSteps(e) == {k \in 1..Len(Carried(e)) : Carried(e)[k].tool \in DispatchedTools}

\* C25: in the value execute_workflow or custom_workflow returns, every step
\* whose handler was invoked has exactly one StepResult, and the handler
\* invocations are as many as the StepResults of steps that have a handler,
\* also when the execution ended on an unexpected fault.
C25_OneResultPerInvocation ==
    \A e \in ExecIds :
        Returned(e) =>
            /\ InvokedSteps(e) = ResultSteps(e)
            /\ Len(calls[e]) = Cardinality(ResultSteps(e))

\* the loop over the steps of execution e is running
InLoop(e) == pc[e] \in {"step", "dispatch", "wait"}
\* the terminal outcomes of an execution
Completed(e) ==
    /\ ret[e].success /\ ret[e].keys = {"results"}
    /\ Len(Carried(e)) = NumSpecs(e)
PartiallyFailed(e) ==
    /\ ~ret[e].success /\ ret[e].keys = {"error", "partial_results"}
    /\ ret[e].error # <<>>
    /\ Len(Carried(e)) < NumSpecs(e)
OneOutcome(e) ==
    /\ Completed(e) \/ PartiallyFailed(e)
    /\ ~(Completed(e) /\ PartiallyFailed(e))
    /\ ret[e].success <=> raised[e] = <<>>

\* C26: an execution that entered the loop over its steps, every process it
\* waits for exiting, ends; it ends Completed (success=true with 'results',
\* one StepResult per StepSpec) or PartiallyFailed (success=false with an error
\* and 'partial_results', fewer StepResults than StepSpecs), never both, and
\* with success=true exactly when no unexpected fault was raised, however many
\* steps reported success=false.
C26_EndsInOneOutcome ==
    /\ [](\A e \in ExecIds : Returned(e) /\ Entered(e) => OneOutcome(e))
    /\ \A e \in ExecIds : InLoop(e) ~> (Returned(e) /\ OneOutcome(e))

\* an execution ended Completed although both of its steps reported failure
C26_Witness ==
    \E e \in ExecIds :
        /\ Returned(e) /\ Entered(e) /\ Completed(e) /\ NumSpecs(e) = 2
        /\ \A k \in 1..2 : ~results[e][k].result.success
        /\ calls[e] # <<>>

\* step j of execution e names a tool the engine has no handler for
UnknownAt(e, j) == Steps(e)[j].tool # NoKey /\ Steps(e)[j].tool \notin DispatchedTools
HasUnknownTool(e) == \E j \in 1..NumSpecs(e) : UnknownAt(e, j)

NonPairList(opts) ==
    /\ opts.kind = "list" /\ opts.items # <<>>
    /\ \A j \in 1..Len(opts.items) : opts.items[j] \notin PairTokens
\* execution e is about to dispatch a metasploit step with such a merged list
ConvertsNonPairs(e) ==
    /\ pc[e] = "dispatch"
    /\ CurrentStep(e).tool = "metasploit"
    /\ NonPairList(CurrentOptions(e))

\* C28: a metasploit step whose merged option list is a non-empty list of
\* strings that are no key/value pairs fails in the conversion of the list
\* before the handler is called: no handler call, no process, no StepResult
\* for the step, no later step; the call returns success=false with
\* partial_results holding the StepResults of the earlier steps.
C28_NonPairOptions ==
    [][\A e \in ExecIds :
          ConvertsNonPairs(e) =>
              /\ pc'[e] = "returned"
              /\ ret'[e] = RetPartial(<<"ValueError", "dict">>)
              /\ results'[e] = results[e] /\ Len(results[e]) = idx[e] - 1
              /\ idx'[e] = idx[e]
              /\ calls'[e] = calls[e]
              /\ spawned'[e] = spawned[e]]_vars

\* the second step of a call was such a metasploit step: the call returned
\* with the StepResult of the first step only
C28_Witness ==
    \E e \in ExecIds :
        /\ Returned(e) /\ Entered(e) /\ NumSpecs(e) = 2 /\ idx[e] = 2
        /\ Steps(e)[2].tool = "metasploit" /\ NonPairList(CurrentOptions(e))
        /\ raised[e] = <<"ValueError", "dict">>
        /\ ret[e] = RetPartial(<<"ValueError", "dict">>)
        /\ Len(Carried(e)) = 1
        /\ 2 \notin InvokedSteps(e)
        /\ \A c \in 1..Len(spawned[e]) : spawned[e][c].k # 2

\* the handler calls of execution e made for a metasploit step
MetasploitCalls(e) == {c \in 1..Len(calls[e]) : calls[e][c].tool = "metasploit"}

\* C29: whenever the engine invokes the metasploit handler, the handler asks
\* the default-configured registry for "msfconsole", which is none of its
\* keys (the key is "metasploit"): the step yields success=false with 'Tool
\* msfconsole not found', no process is spawned for it and no parsed session
\* list is produced, also when the "metasploit" entry resolves.
C29_MetasploitNeverRuns ==
    \A e \in ExecIds :
        \A c \in MetasploitCalls(e) :
            LET k == calls[e][c].k
            IN  /\ "msfconsole" \notin DOMAIN find_tool_paths(fs)
                /\ \A p \in 1..Len(spawned[e]) : spawned[e][p].k # k
                /\ Len(results[e]) >= k
                /\ results[e][k].result = ResNotFound("msfconsole")
                /\ ~results[e][k].result.success
                /\ "parsed" \notin results[e][k].result.keys

\* the metasploit handler was invoked on a machine where the "metasploit"
\* entry of the registry resolves
C29_Witness ==
    \E e \in ExecIds :
        /\ is_tool_available(find_tool_paths(fs), "metasploit")
        /\ MetasploitCalls(e) # {}
        /\ \E k \in 1..Len(results[e]) :
              /\ results[e][k].tool = "metasploit"
              /\ results[e][k].result = ResNotFound("msfconsole")

====
